---- MODULE Spec2Model ----
(***************************************************************************)
(* Smart Doctor Assistant: the appointment store with its validator, the   *)
(* conversation-memory store, the agent loop of the orchestrator and the   *)
(* useChat hook of the frontend, as state machines.                        *)
(*                                                                         *)
(* Times are minutes since midnight.  Dates are day offsets from "today"   *)
(* (Saturday 2025-12-20, the date of the documents).                       *)
(***************************************************************************)
EXTENDS Integers, Sequences, FiniteSets, TLC

VARIABLES
    appointments,   \* table appointments: set of rows
    nextApptId,     \* SERIAL id of the next appointments row
    bk,             \* per booking client: the request in progress and its response
    \* ---- useChat (frontend/src/hooks/useAPI.js) in one browser
    localStorage,   \* key -> stored string, or Null when the key is absent
    mounted,        \* whether the component using the hook is mounted
    userEmail,      \* the userEmail argument of the current render
    messages,       \* useState: messages
    sessionId,      \* useState: sessionId
    isLoading,      \* useState: isLoading
    chatError,      \* useState: error
    inflight,       \* pending axios.post('/chat') calls with what their closure captured
    nextReq,        \* number of /chat requests issued so far
    otherTab,       \* a second instance of the hook in another tab of the same browser
    \* ---- conversation memory and the agent loop of one /api/chat request
    conversation_contexts,  \* table conversation_contexts: set of rows
    pc,             \* where the server is in the current request
    request,        \* session_id and user_email of the current request
    memory_context, \* get_context_for_prompt's result, put in the system prompt
    iteration,      \* the loop counter
    max_iterations, \* the agent's configured bound
    llm_messages,   \* the message list sent to the model
    all_tool_results,
    result,         \* the response of the current request
    turns,          \* number of requests received
    obs,            \* what happened during the current request
    \* ---- the memory store under concurrent requests and the cleanup job
    clock,          \* the current time, in hours
    session_id_unique,  \* whether the table carries the column constraint UNIQUE(session_id)
    mem,            \* per worker: the memory operation in progress
    sweep,          \* cleanup_expired_contexts: its position, its "now", what it deleted
    committed,      \* per (session_id, patient_email): mutations committed on the current row
    \* ---- the MCP server's tool registry
    tools,          \* self.tools: tool name -> registered descriptor, or Null
    registerCall,   \* the last registration: its arguments, what the name held, what it raised
    \* ---- counts rendered with a noun
    rendered,       \* per place that renders a count: what it rendered last, or Null
    \* ---- useDoctorDashboard (frontend/src/hooks/useAPI.js) in DoctorDashboard
    doctorDashboard,    \* doctorId and useState: stats, appointments, loading, error
    fetching            \* pending axios calls of fetchStats, fetchAppointments, generateReport

bookingVars == <<appointments, nextApptId, bk>>

chatVars == <<localStorage, mounted, userEmail, messages, sessionId, isLoading,
              chatError, inflight, nextReq, otherTab>>

agentVars == <<conversation_contexts, pc, request, memory_context, iteration,
               max_iterations, llm_messages, all_tool_results, result, turns, obs>>

turnVars == <<pc, request, memory_context, iteration, max_iterations, llm_messages,
              all_tool_results, result, turns, obs>>

memVars == <<clock, session_id_unique, mem, sweep, committed>>

registryVars == <<tools, registerCall>>

\* The components beside booking, chat, agent and memory store.
renderVars == <<rendered>>

doctorDashboardVars == <<doctorDashboard, fetching>>

restVars == <<registryVars, renderVars, doctorDashboardVars>>

vars == <<appointments, nextApptId, bk, localStorage, mounted, userEmail, messages,
          sessionId, isLoading, chatError, inflight, nextReq, otherTab,
          conversation_contexts, pc, request, memory_context, iteration,
          max_iterations, llm_messages, all_tool_results, result, turns, obs,
          clock, session_id_unique, mem, sweep, committed,
          tools, registerCall, rendered, doctorDashboard, fetching>>

None == "none"

\* null / undefined of the frontend: an absent localStorage key, no session id
Null == [null |-> TRUE]

\* ------------------------------------------------------------------ bounds
NumClients == 3

\* Number of toggles of a row's status that the collaborator performs.
MaxCancels == 1

Clients == 1..NumClients

\* ------------------------------------------------------ doctors (seed data)
\* Weekdays are numbered Monday = 0 .. Sunday = 6.
Saturday == 5

TodayWeekday == Saturday

WeekdayOf(d) == (TodayWeekday + d) % 7

Doctors ==
    [ d \in {1} |->
        [ name |-> "Dr. Rajesh Ahuja",
          available_days |-> {0, 1, 2, 3, 4},
          available_start_time |-> 540,
          available_end_time |-> 1020,
          slot_duration_minutes |-> 30 ] ]

DoctorIds == DOMAIN Doctors

\* Federal holidays the clinic is closed on; day 5 is 2025-12-25.
Holidays == {5}

\* "Cannot book more than 6 months in advance"
MaxAdvanceDays == 180

\* Dates and times the clients ask for: Monday 2025-12-22 (2) and
\* Saturday 2025-12-27 (7); 10:00, 10:15 and 17:00.
RequestDates == {2, 7}

RequestTimes == {600, 615, 1020}

\* ------------------------------------------------------ validator
validate_date_against_availability(appt_date, doctor) ==
    IF appt_date < 0 THEN "past"
    ELSE IF appt_date > MaxAdvanceDays THEN "too_far"
    ELSE IF appt_date \in Holidays THEN "holiday"
    ELSE IF WeekdayOf(appt_date) \notin doctor.available_days THEN "not_working_day"
    ELSE None

\* A time check whose range is closed at the end of the working hours.
validate_time_against_availability_Closed(appt_time, doctor) ==
    IF appt_time < doctor.available_start_time \/ appt_time > doctor.available_end_time
    THEN "outside_hours"
    ELSE None

validate_time_against_availability(appt_time, doctor) ==
    IF appt_time < doctor.available_start_time \/ appt_time >= doctor.available_end_time
    THEN "outside_hours"
    ELSE None

EndTime(a) == a.appointment_time + a.duration_minutes

\* The exact-slot query without its status filter.
ExactSlotQuery_AnyStatus(appts, doctor_id, appt_date, appt_time) ==
    { a \in appts :
        /\ a.doctor_id = doctor_id
        /\ a.appointment_date = appt_date
        /\ a.appointment_time = appt_time }

\* Exact Time Slot query
ExactSlotQuery(appts, doctor_id, appt_date, appt_time) ==
    { a \in appts :
        /\ a.doctor_id = doctor_id
        /\ a.appointment_date = appt_date
        /\ a.appointment_time = appt_time
        /\ a.status # "cancelled" }

\* Overlapping Detection query
OverlappingQuery(appts, doctor_id, appt_date, appt_time, end_time) ==
    { a \in appts :
        /\ a.doctor_id = doctor_id
        /\ a.appointment_date = appt_date
        /\ a.appointment_time < end_time
        /\ EndTime(a) > appt_time
        /\ a.status # "cancelled" }

\* The walk with a slot skipped only when a booking starts exactly at it.
RECURSIVE WalkSlots_ExactOnly(_, _, _, _, _, _)
WalkSlots_ExactOnly(appts, doctor_id, appt_date, t, doctor, found) ==
    IF Len(found) >= 5 \/ t + doctor.slot_duration_minutes > doctor.available_end_time
    THEN found
    ELSE WalkSlots_ExactOnly(appts, doctor_id, appt_date,
            t + doctor.slot_duration_minutes, doctor,
            IF ExactSlotQuery(appts, doctor_id, appt_date, t) = {}
            THEN Append(found, t) ELSE found)

\* Up to 5 open slots of the date, walking the working hours in slot steps.
RECURSIVE WalkSlots(_, _, _, _, _, _)
WalkSlots(appts, doctor_id, appt_date, t, doctor, found) ==
    IF Len(found) >= 5 \/ t + doctor.slot_duration_minutes > doctor.available_end_time
    THEN found
    ELSE WalkSlots(appts, doctor_id, appt_date, t + doctor.slot_duration_minutes, doctor,
            IF OverlappingQuery(appts, doctor_id, appt_date, t,
                                t + doctor.slot_duration_minutes) = {}
            THEN Append(found, t) ELSE found)

find_available_slots(appts, doctor_id, appt_date) ==
    WalkSlots(appts, doctor_id, appt_date, Doctors[doctor_id].available_start_time,
              Doctors[doctor_id], <<>>)

check_appointment_conflict(appts, doctor_id, appt_date, appt_time) ==
    LET end_time == appt_time + Doctors[doctor_id].slot_duration_minutes IN
    IF ExactSlotQuery(appts, doctor_id, appt_date, appt_time) # {} THEN "already_booked"
    ELSE IF OverlappingQuery(appts, doctor_id, appt_date, appt_time, end_time) # {}
         THEN "overlaps"
    ELSE None

\* The complete validation with the time checked before the date.
validate_complete_appointment_TimeFirst(appts, doctor_id, appt_date, appt_time) ==
    LET doctor == Doctors[doctor_id]
        dateErr == validate_date_against_availability(appt_date, doctor)
        timeErr == validate_time_against_availability(appt_time, doctor)
        conflictErr == check_appointment_conflict(appts, doctor_id, appt_date, appt_time)
    IN  IF timeErr # None
        THEN [valid |-> FALSE, error_type |-> "time", error |-> timeErr,
              suggested_slots |-> <<>>]
        ELSE IF dateErr # None
        THEN [valid |-> FALSE, error_type |-> "date", error |-> dateErr,
              suggested_slots |-> <<>>]
        ELSE IF conflictErr # None
        THEN [valid |-> FALSE, error_type |-> "conflict", error |-> conflictErr,
              suggested_slots |-> find_available_slots(appts, doctor_id, appt_date)]
        ELSE [valid |-> TRUE, error_type |-> None, error |-> None,
              suggested_slots |-> <<>>]

validate_complete_appointment(appts, doctor_id, appt_date, appt_time) ==
    LET doctor == Doctors[doctor_id]
        dateErr == validate_date_against_availability(appt_date, doctor)
        timeErr == validate_time_against_availability(appt_time, doctor)
        conflictErr == check_appointment_conflict(appts, doctor_id, appt_date, appt_time)
    IN  IF dateErr # None
        THEN [valid |-> FALSE, error_type |-> "date", error |-> dateErr,
              suggested_slots |-> <<>>]
        ELSE IF timeErr # None
        THEN [valid |-> FALSE, error_type |-> "time", error |-> timeErr,
              suggested_slots |-> <<>>]
        ELSE IF conflictErr # None
        THEN [valid |-> FALSE, error_type |-> "conflict", error |-> conflictErr,
              suggested_slots |-> find_available_slots(appts, doctor_id, appt_date)]
        ELSE [valid |-> TRUE, error_type |-> None, error |-> None,
              suggested_slots |-> <<>>]

\* ------------------------------------------------------ appointments table
\* UNIQUE(doctor_id, appointment_date, appointment_time): the row's status
\* is not part of the constraint.
UniqueSlotViolated(appts, doctor_id, appt_date, appt_time) ==
    \E a \in appts :
        /\ a.doctor_id = doctor_id
        /\ a.appointment_date = appt_date
        /\ a.appointment_time = appt_time

NewAppointment(id, doctor_id, appt_date, appt_time) ==
    [ id |-> id, doctor_id |-> doctor_id, appointment_date |-> appt_date,
      appointment_time |-> appt_time,
      duration_minutes |-> Doctors[doctor_id].slot_duration_minutes,
      status |-> "scheduled" ]

\* ------------------------------------------------------ POST /api/appointments
IdleClient ==
    [ pc |-> "idle", doctor_id |-> 0, date |-> 0, time |-> 0,
      success |-> FALSE, error_type |-> None, error |-> None,
      suggested_slots |-> <<>> ]

\* A validation that holds the slot it found free by writing a row.
BookValidate_Reserving(c, d, date, time) ==
    /\ bk[c].pc = "idle"
    /\ LET v == validate_complete_appointment(appointments, d, date, time) IN
       /\ bk' = [bk EXCEPT ![c] =
                   [ pc |-> IF v.valid THEN "inserting" ELSE "done",
                     doctor_id |-> d, date |-> date, time |-> time,
                     success |-> FALSE, error_type |-> v.error_type, error |-> v.error,
                     suggested_slots |-> v.suggested_slots ]]
       /\ appointments' = IF v.valid
                          THEN appointments \cup {NewAppointment(nextApptId, d, date, time)}
                          ELSE appointments
       /\ nextApptId' = IF v.valid THEN nextApptId + 1 ELSE nextApptId
    /\ UNCHANGED <<chatVars, agentVars, memVars>>
    /\ UNCHANGED restVars

\* A client's request arrives; the validator reads the table as it is now.
BookValidate(c, d, date, time) ==
    /\ bk[c].pc = "idle"
    /\ LET v == validate_complete_appointment(appointments, d, date, time) IN
       bk' = [bk EXCEPT ![c] =
                [ pc |-> IF v.valid THEN "inserting" ELSE "done",
                  doctor_id |-> d, date |-> date, time |-> time,
                  success |-> FALSE, error_type |-> v.error_type, error |-> v.error,
                  suggested_slots |-> v.suggested_slots ]]
    /\ UNCHANGED <<appointments, nextApptId>>
    /\ UNCHANGED <<chatVars, agentVars, memVars>>
    /\ UNCHANGED restVars

\* db.add(appointment); db.commit(); on an exception db.rollback() and
\* {"success": False, "error": str(e)}.
BookInsert(c) ==
    /\ bk[c].pc = "inserting"
    /\ IF UniqueSlotViolated(appointments, bk[c].doctor_id, bk[c].date, bk[c].time)
       THEN /\ bk' = [bk EXCEPT ![c].pc = "done", ![c].success = FALSE,
                                ![c].error = "IntegrityError"]
            /\ UNCHANGED <<appointments, nextApptId>>
       ELSE /\ appointments' = appointments \cup
                    {NewAppointment(nextApptId, bk[c].doctor_id, bk[c].date, bk[c].time)}
            /\ nextApptId' = nextApptId + 1
            /\ bk' = [bk EXCEPT ![c].pc = "done", ![c].success = TRUE]
    /\ UNCHANGED <<chatVars, agentVars, memVars>>
    /\ UNCHANGED restVars

\* The status column of a scheduled row is set to 'cancelled'.
CancelAppointment(a) ==
    /\ a \in appointments
    /\ a.status = "scheduled"
    /\ Cardinality({x \in appointments : x.status = "cancelled"}) < MaxCancels
    /\ appointments' = (appointments \ {a}) \cup {[a EXCEPT !.status = "cancelled"]}
    /\ UNCHANGED <<nextApptId, bk>>
    /\ UNCHANGED <<chatVars, agentVars, memVars>>
    /\ UNCHANGED restVars

BookingInit ==
    /\ appointments = {}
    /\ nextApptId = 1
    /\ bk = [c \in Clients |-> IdleClient]

BookingNext ==
    \/ \E c \in Clients, d \in DoctorIds, date \in RequestDates, time \in RequestTimes :
          BookValidate(c, d, date, time)
    \/ \E c \in Clients : BookInsert(c)
    \/ \E a \in appointments : CancelAppointment(a)

\* ------------------------------------------------------ the validator on a filled table
\* Bookings of doctor 1 on Monday 2025-12-22 that the table may hold
\* before the request: 09:00, 09:30, 10:00 and 10:15, each scheduled or
\* cancelled, and the slots from 11:00 to 16:30, all booked or all free.
MorningTimes == <<540, 570, 600, 615>>

AfternoonTimes == <<660, 690, 720, 750, 780, 810, 840, 870, 900, 930, 960, 990>>

TableOf(morning, afternoon) ==
    { [NewAppointment(i, 1, 2, MorningTimes[i]) EXCEPT !.status = morning[i]] :
        i \in { j \in DOMAIN MorningTimes : morning[j] # "absent" } }
    \cup { NewAppointment(Len(MorningTimes) + i, 1, 2, AfternoonTimes[i]) :
             i \in IF afternoon THEN DOMAIN AfternoonTimes ELSE {} }

\* Dates of a request: yesterday, Monday 2025-12-22, Christmas Day,
\* Saturday 2025-12-27, and a day past the six months.
ValidatorDates == {-1, 2, 5, 7, 181}

\* Times of a request: 08:00, 09:00, 10:00, 10:15, 10:30, 11:00 and 17:00.
ValidatorTimes == {480, 540, 600, 615, 630, 660, 1020}

ValidatorInit ==
    /\ \E morning \in [DOMAIN MorningTimes -> {"absent", "scheduled", "cancelled"}],
          afternoon \in BOOLEAN :
          appointments = TableOf(morning, afternoon)
    /\ nextApptId = Len(MorningTimes) + Len(AfternoonTimes) + 1
    /\ bk = [c \in Clients |-> IdleClient]

ValidatorNext ==
    \/ \E d \in DoctorIds, date \in ValidatorDates, time \in ValidatorTimes :
          BookValidate(1, d, date, time)
    \/ BookInsert(1)

\* ====================================================================
\* useChat: chat state persisted in localStorage under user-scoped keys
\* ====================================================================
Emails == {"alice@example.com", "bob@example.com"}

\* Number of /chat requests one browser issues.
MaxRequests == 2

\* STORAGE_KEYS
MessagesKey(email) == <<"smart_doctor_messages_", email>>

SessionKey(email) == <<"smart_doctor_session_id_", email>>

OLD_KEYS == {<<"smart_doctor_messages", "">>, <<"smart_doctor_session_id", "">>}

StorageKeys ==
    {MessagesKey(e) : e \in Emails} \cup {SessionKey(e) : e \in Emails} \cup OLD_KEYS

\* JSON.stringify / JSON.parse of the message list: the stored string holds
\* the list; an absent key is Null.
JSONstringify(msgs) == [json |-> msgs]

JSONparse(str) == str.json

\* localStorage.setItem / removeItem
setItem(store, key, value) == [store EXCEPT ![key] = value]

removeItem(store, key) == [store EXCEPT ![key] = Null]

\* The migration effect: old global keys are removed on mount.
MigrateOldKeys(store) == [k \in StorageKeys |-> IF k \in OLD_KEYS THEN Null ELSE store[k]]

\* useState initialisers
LoadMessages(store, email) ==
    IF store[MessagesKey(email)] # Null THEN JSONparse(store[MessagesKey(email)]) ELSE <<>>

\* An initialiser that ignores the saved session id.
LoadSessionId_Initial(store, email) == Null

LoadSessionId(store, email) ==
    IF store[SessionKey(email)] # Null THEN store[SessionKey(email)] ELSE Null

\* The two persist effects, run after a render in which messages,
\* sessionId or STORAGE_KEYS changed.
PersistEffects(store, email, msgs, sid) ==
    LET s1 == setItem(store, MessagesKey(email), JSONstringify(msgs)) IN
    IF sid # Null THEN setItem(s1, SessionKey(email), sid) ELSE s1

\* The component mounts (page load): state is initialised from this
\* user's keys, then the effects run.
Mount(email) ==
    /\ ~mounted
    /\ mounted' = TRUE
    /\ userEmail' = email
    /\ LET msgs == LoadMessages(localStorage, email)
           sid == LoadSessionId(localStorage, email)
       IN /\ messages' = msgs
          /\ sessionId' = sid
          /\ localStorage' = PersistEffects(MigrateOldKeys(localStorage), email, msgs, sid)
    /\ isLoading' = FALSE
    /\ chatError' = None
    /\ inflight' = {}
    /\ UNCHANGED nextReq
    /\ UNCHANGED <<bookingVars, agentVars, memVars, otherTab>>
    /\ UNCHANGED restVars

\* The page is closed or refreshed: the hook's state and its pending
\* requests are gone, localStorage stays.
Unmount ==
    /\ mounted
    /\ mounted' = FALSE
    /\ messages' = <<>>
    /\ sessionId' = Null
    /\ isLoading' = FALSE
    /\ chatError' = None
    /\ inflight' = {}
    /\ UNCHANGED <<localStorage, userEmail, nextReq>>
    /\ UNCHANGED <<bookingVars, agentVars, memVars, otherTab>>
    /\ UNCHANGED restVars

\* The mounted hook is rendered with another userEmail (setUserEmail of the
\* AppContext): STORAGE_KEYS is recomputed and both persist effects run
\* again; messages and sessionId keep their values.
ChangeUserEmail(email) ==
    /\ mounted
    /\ email # userEmail
    /\ userEmail' = email
    /\ localStorage' = PersistEffects(localStorage, email, messages, sessionId)
    /\ UNCHANGED <<mounted, messages, sessionId, isLoading, chatError, inflight, nextReq>>
    /\ UNCHANGED <<bookingVars, agentVars, memVars, otherTab>>
    /\ UNCHANGED restVars

\* sendMessage(messageText) with non-blank text, up to the await.
SendMessage ==
    /\ mounted
    /\ nextReq < MaxRequests
    /\ LET userMessage == [role |-> "user", owner |-> userEmail, isError |-> FALSE]
           msgs == Append(messages, userMessage)
       IN /\ messages' = msgs
          /\ localStorage' = PersistEffects(localStorage, userEmail, msgs, sessionId)
    /\ isLoading' = TRUE
    /\ chatError' = None
    /\ inflight' = inflight \cup
          {[id |-> nextReq + 1, session_id |-> sessionId, user_email |-> userEmail]}
    /\ nextReq' = nextReq + 1
    /\ UNCHANGED <<mounted, userEmail, sessionId>>
    /\ UNCHANGED <<bookingVars, agentVars, memVars, otherTab>>
    /\ UNCHANGED restVars

\* String.prototype.trim on the texts of the model.
trim(s) == IF s = " " THEN "" ELSE s

\* Texts a caller passes to sendMessage: a message, a blank, nothing.
MessageTexts == {"I need a cardiologist", " ", ""}

\* sendMessage without its first line.
sendMessage_NoBlankCheck(messageText) == SendMessage

\* sendMessage(messageText): "if (!messageText.trim()) return;", then
\* the send.
sendMessage(messageText) ==
    IF trim(messageText) = "" THEN UNCHANGED vars ELSE SendMessage

\* A handler that sends whatever the loading flag says.
handleSendMessage_NoLoadingCheck == SendMessage

\* PatientDashboard.handleSendMessage with text in the input: it returns
\* at once while isLoading, else it calls sendMessage.  The render that
\* follows a handler's state updates is committed before the next event
\* is handled, so the handler sees the current isLoading.
handleSendMessage ==
    /\ ~isLoading
    /\ SendMessage

\* The session id the backend answers with: the one sent, or a new one
\* made for the request's user.
ServerSessionId(r) ==
    IF r.session_id # Null THEN r.session_id ELSE [sid |-> r.id, for |-> r.user_email]

\* The /chat response arrives: the rest of sendMessage's try block and
\* its finally.
ChatResponse(r) ==
    /\ mounted
    /\ r \in inflight
    /\ LET sid == IF r.session_id = Null THEN ServerSessionId(r) ELSE sessionId
           assistantMessage == [role |-> "assistant", owner |-> r.user_email,
                                isError |-> FALSE]
           msgs == Append(messages, assistantMessage)
       IN /\ sessionId' = sid
          /\ messages' = msgs
          /\ localStorage' = PersistEffects(localStorage, userEmail, msgs, sid)
    /\ isLoading' = FALSE
    /\ inflight' = inflight \ {r}
    /\ UNCHANGED <<mounted, userEmail, chatError, nextReq>>
    /\ UNCHANGED <<bookingVars, agentVars, memVars, otherTab>>
    /\ UNCHANGED restVars

\* A catch block that leaves the request pending, so that it settles again.
ChatFailure_StillPending(r) ==
    /\ mounted
    /\ r \in inflight
    /\ LET errorMessage == [role |-> "assistant", owner |-> r.user_email,
                            isError |-> TRUE]
           msgs == Append(messages, errorMessage)
       IN /\ messages' = msgs
          /\ localStorage' = PersistEffects(localStorage, userEmail, msgs, sessionId)
    /\ chatError' = "err.message"
    /\ isLoading' = FALSE
    /\ UNCHANGED <<mounted, userEmail, sessionId, nextReq, inflight>>
    /\ UNCHANGED <<bookingVars, agentVars, memVars, otherTab>>
    /\ UNCHANGED restVars

\* The request fails or times out after 60 s: the catch block and the finally.
ChatFailure(r) ==
    /\ mounted
    /\ r \in inflight
    /\ LET errorMessage == [role |-> "assistant", owner |-> r.user_email,
                            isError |-> TRUE]
           msgs == Append(messages, errorMessage)
       IN /\ messages' = msgs
          /\ localStorage' = PersistEffects(localStorage, userEmail, msgs, sessionId)
    /\ chatError' = "err.message"
    /\ isLoading' = FALSE
    /\ inflight' = inflight \ {r}
    /\ UNCHANGED <<mounted, userEmail, sessionId, nextReq>>
    /\ UNCHANGED <<bookingVars, agentVars, memVars, otherTab>>
    /\ UNCHANGED restVars

\* A pending request settles: the response arrives, or the request fails
\* or reaches axios's timeout of 60 s.
Settle == \E r \in inflight : ChatResponse(r) \/ ChatFailure(r)

\* clearMessages, followed by the persist effect of the emptied list.
ClearMessages ==
    /\ mounted
    /\ messages' = <<>>
    /\ sessionId' = Null
    /\ chatError' = None
    /\ localStorage' =
          PersistEffects(
              removeItem(removeItem(localStorage, MessagesKey(userEmail)),
                         SessionKey(userEmail)),
              userEmail, <<>>, Null)
    /\ UNCHANGED <<mounted, userEmail, isLoading, inflight, nextReq>>
    /\ UNCHANGED <<bookingVars, agentVars, memVars, otherTab>>
    /\ UNCHANGED restVars

\* The hook's state in a tab that is not open.
ClosedTab == [mounted |-> FALSE, messages |-> <<>>, sessionId |-> Null, sent |-> 0]

\* A second tab of the same browser opens the application: the same
\* userEmail (it is kept in localStorage), its own useState values
\* initialised from the same keys, then its effects.
OtherTabMount ==
    /\ mounted
    /\ ~otherTab.mounted
    /\ LET msgs == LoadMessages(localStorage, userEmail)
           sid == LoadSessionId(localStorage, userEmail)
       IN /\ otherTab' = [mounted |-> TRUE, messages |-> msgs, sessionId |-> sid,
                          sent |-> 0]
          /\ localStorage' = PersistEffects(MigrateOldKeys(localStorage), userEmail, msgs, sid)
    /\ UNCHANGED <<mounted, userEmail, messages, sessionId, isLoading, chatError,
                   inflight, nextReq>>
    /\ UNCHANGED <<bookingVars, agentVars, memVars>>
    /\ UNCHANGED restVars

\* sendMessage in the second tab, up to the await: its own list gets the
\* user message and its persist effect writes that list.
OtherTabSend ==
    /\ mounted
    /\ otherTab.mounted
    /\ otherTab.sent < MaxRequests
    /\ LET userMessage == [role |-> "user", owner |-> userEmail, isError |-> FALSE]
           msgs == Append(otherTab.messages, userMessage)
       IN /\ otherTab' = [otherTab EXCEPT !.messages = msgs, !.sent = @ + 1]
          /\ localStorage' = PersistEffects(localStorage, userEmail, msgs, otherTab.sessionId)
    /\ UNCHANGED <<mounted, userEmail, messages, sessionId, isLoading, chatError,
                   inflight, nextReq>>
    /\ UNCHANGED <<bookingVars, agentVars, memVars>>
    /\ UNCHANGED restVars

ChatInit ==
    /\ localStorage = [k \in StorageKeys |-> Null]
    /\ mounted = FALSE
    /\ userEmail = Null
    /\ messages = <<>>
    /\ sessionId = Null
    /\ isLoading = FALSE
    /\ chatError = None
    /\ inflight = {}
    /\ nextReq = 0
    /\ otherTab = ClosedTab

ChatNext ==
    \/ \E e \in Emails : Mount(e)
    \/ Unmount
    \/ \E e \in Emails : ChangeUserEmail(e)
    \/ SendMessage
    \/ \E r \in inflight : ChatResponse(r)
    \/ \E r \in inflight : ChatFailure(r)
    \/ ClearMessages

\* ====================================================================
\* Conversation memory (conversation_contexts) and the agent loop
\* ====================================================================
\* Number of /api/chat requests the server handles.
MaxTurns == 2

\* Largest configured value of max_iterations.
MaxIterationsBound == 2

SessionIds == {"session123"}

\* user_email of a request: missing (None), empty, blank, or an address.
RequestEmails == {None, "", " "} \cup Emails

\* Python truthiness of an optional string, and str.strip()
Truthy(s) == s # None /\ s # ""

Strip(s) == IF s = " " THEN "" ELSE s

\* ------------------------------------------------------ ConversationMemoryManager
EmptyContextData ==
    [ selected_doctor |-> Null, attempted_dates |-> <<>>,
      last_rejection_reason |-> Null, last_successful_booking |-> Null ]

\* Hours a context lives after its last update.
TTL_HOURS == 24

NewContext(session_id, patient_email, now) ==
    [ session_id |-> session_id, patient_email |-> patient_email,
      context_data |-> EmptyContextData, last_message |-> Null,
      last_response |-> Null, message_count |-> 0,
      updated_at |-> now, expires_at |-> now + TTL_HOURS ]

\* A mutation that stamps updated_at and leaves expires_at where it was.
Touch_KeepExpiry(row, now) == [row EXCEPT !.updated_at = now]

\* Every mutation stamps updated_at and moves expires_at to 24 hours later
\* (extend_expiry, hours=24).
Touch(row, now) == [row EXCEPT !.updated_at = now, !.expires_at = now + TTL_HOURS]

\* db.query(ConversationContext).filter(session_id == ..., patient_email == ...)
QueryContext(ctxs, session_id, patient_email) ==
    { r \in ctxs : r.session_id = session_id /\ r.patient_email = patient_email }

get_or_create_context(ctxs, session_id, patient_email, now) ==
    IF QueryContext(ctxs, session_id, patient_email) # {}
    THEN ctxs
    ELSE ctxs \cup {NewContext(session_id, patient_email, now)}

\* The row of (session_id, patient_email) after get_or_create_context.
ContextRow(ctxs, session_id, patient_email, now) ==
    CHOOSE r \in QueryContext(get_or_create_context(ctxs, session_id, patient_email, now),
                              session_id, patient_email) : TRUE

\* update_context: the row of the pair is replaced by row; nothing is
\* written without a patient_email (ValueError).
update_context(ctxs, session_id, patient_email, row, now) ==
    IF ~Truthy(patient_email) THEN ctxs
    ELSE (ctxs \ QueryContext(ctxs, session_id, patient_email)) \cup {Touch(row, now)}

\* Every stored item carries "by": the user_email of the request during
\* which it was recorded.
\* What each method changes in the row it has read.
WithAttemptedDate(row, date, reason, by) ==
    [row EXCEPT
        !.context_data.attempted_dates = Append(@, [date |-> date, by |-> by]),
        !.context_data.last_rejection_reason = [reason |-> reason, by |-> by]]

\* The count goes up and the last message is kept, not the response.
WithMessageCounted_NoResponse(row, by, user_message, ai_response) ==
    [row EXCEPT !.message_count = @ + 1,
                !.last_message = [by |-> by, text |-> user_message]]

WithMessageCounted(row, by, user_message, ai_response) ==
    [row EXCEPT !.message_count = @ + 1,
                !.last_message = [by |-> by, text |-> user_message],
                !.last_response = [content |-> ai_response]]

save_doctor_selection(ctxs, session_id, patient_email, doctor_id, by, now) ==
    update_context(ctxs, session_id, patient_email,
        [ContextRow(ctxs, session_id, patient_email, now) EXCEPT
            !.context_data.selected_doctor =
                [id |-> doctor_id, name |-> Doctors[doctor_id].name, by |-> by]], now)

save_attempted_date(ctxs, session_id, patient_email, date, reason, by, now) ==
    update_context(ctxs, session_id, patient_email,
        WithAttemptedDate(ContextRow(ctxs, session_id, patient_email, now),
                          date, reason, by), now)

save_successful_booking(ctxs, session_id, patient_email, appointment_id, date, time, by, now) ==
    update_context(ctxs, session_id, patient_email,
        [ContextRow(ctxs, session_id, patient_email, now) EXCEPT
            !.context_data.last_successful_booking =
                [appointment_id |-> appointment_id, date |-> date, time |-> time,
                 by |-> by]], now)

update_message_count(ctxs, session_id, patient_email, user_message, ai_response, by, now) ==
    update_context(ctxs, session_id, patient_email,
        WithMessageCounted(ContextRow(ctxs, session_id, patient_email, now), by,
                           user_message, ai_response), now)

\* The lines of the "Conversation Context" block of the system prompt.
SummaryLines(cd) ==
    (IF cd.selected_doctor # Null
     THEN <<[line |-> "interest", value |-> cd.selected_doctor]>> ELSE <<>>)
    \o (IF cd.attempted_dates # <<>>
        THEN <<[line |-> "attempted", value |-> cd.attempted_dates]>> ELSE <<>>)
    \o (IF cd.last_rejection_reason # Null
        THEN <<[line |-> "rejection", value |-> cd.last_rejection_reason]>> ELSE <<>>)
    \o (IF cd.last_successful_booking # Null
        THEN <<[line |-> "booked", value |-> cd.last_successful_booking]>> ELSE <<>>)

get_context_for_prompt(ctxs, session_id, patient_email) ==
    IF ~Truthy(patient_email) THEN <<>>
    ELSE LET rows == QueryContext(ctxs, session_id, patient_email) IN
         IF rows = {} THEN <<>>
         ELSE SummaryLines((CHOOSE r \in rows : TRUE).context_data)

\* ------------------------------------------------------ MCP server tools
mcp_server_tools == {"list_doctors", "book_appointment"}

\* A tool call of the model: name and arguments; "fault" marks a call
\* during which the handler raises (the database fails).
ListDoctorsCall ==
    [ name |-> "list_doctors", args |-> [specialization |-> "Cardiology"],
      fault |-> FALSE ]

BookCall(patient_email, date, time) ==
    [ name |-> "book_appointment",
      args |-> [patient_email |-> patient_email, doctor_id |-> 1,
                appointment_date |-> date, appointment_time |-> time],
      fault |-> FALSE ]

\* Calls that cannot succeed: a tool that is not registered, a booking
\* without patient_email, a listing during which the database fails.
UnknownToolCall ==
    [ name |-> "get_weather", args |-> [city |-> "Delhi"], fault |-> FALSE ]

BookCallWithoutEmail ==
    [ name |-> "book_appointment",
      args |-> [doctor_id |-> 1, appointment_date |-> 2, appointment_time |-> 600],
      fault |-> FALSE ]

ListDoctorsFaulting == [ListDoctorsCall EXCEPT !.fault = TRUE]

FailingCalls == {UnknownToolCall, BookCallWithoutEmail, ListDoctorsFaulting}

\* The required parameters of a tool's handler.
RequiredParams(name) ==
    IF name = "book_appointment"
    THEN {"patient_email", "doctor_id", "appointment_date", "appointment_time"}
    ELSE {}

\* Tool calls the model asks for: the arguments, patient_email included,
\* are the model's choice.  The slot is Monday 2025-12-22 at 10:00: its
\* first booking succeeds, later ones are rejected as conflicts.
BookCalls == { BookCall(e, 2, 600) : e \in Emails }

ToolCallLists ==
    { <<ListDoctorsCall>>, <<BookCall("bob@example.com", 2, 600)>>,
      <<UnknownToolCall>>, <<BookCallWithoutEmail, ListDoctorsFaulting>>,
      <<BookCall("alice@example.com", 2, 600), BookCall("bob@example.com", 2, 600)>> }

\* What the model, or the transport to it, does on one call.
LLMOutcomes ==
    { [kind |-> "content", content |-> <<[text |-> "llm_text"]>>],
      [kind |-> "content", content |-> <<>>],
      [kind |-> "Timeout"],
      [kind |-> "ConnectionError"] }
    \cup { [kind |-> "tool_calls", calls |-> l] : l \in ToolCallLists }

LLMFailure(outcome) == outcome.kind \in {"Timeout", "ConnectionError"}

\* free_llm.py: a timeout or a connection error is returned as an
\* assistant message, other outcomes as the model's response.
call_llm(outcome) ==
    IF outcome.kind = "Timeout"
    THEN [content |-> <<[text |-> "The AI is taking longer than expected."]>>,
          tool_calls |-> <<>>]
    ELSE IF outcome.kind = "ConnectionError"
    THEN [content |-> <<[text |-> "Cannot connect to Ollama."]>>, tool_calls |-> <<>>]
    ELSE IF outcome.kind = "tool_calls"
    THEN [content |-> <<>>, tool_calls |-> outcome.calls]
    ELSE [content |-> outcome.content, tool_calls |-> <<>>]

\* The database as the tools see it.
Db(appts, next_id, ctxs, now) ==
    [appointments |-> appts, nextApptId |-> next_id, contexts |-> ctxs, now |-> now]

list_doctors(db) ==
    [ db |-> db,
      result |-> [success |-> TRUE, doctors |-> DoctorIds] ]

\* _book_appointment: validation, insert, and the memory tracking keyed by
\* (session_id, patient_email) with patient_email the tool argument.
book_appointment(db, args, session_id, by) ==
    LET v == validate_complete_appointment(db.appointments, args.doctor_id,
                                           args.appointment_date, args.appointment_time)
        tracked == Truthy(session_id) /\ Truthy(args.patient_email)
    IN  IF ~v.valid
        THEN [ db |-> [db EXCEPT !.contexts =
                          IF tracked
                          THEN save_attempted_date(
                                   save_doctor_selection(@, session_id, args.patient_email,
                                                         args.doctor_id, by, db.now),
                                   session_id, args.patient_email,
                                   args.appointment_date, v.error, by, db.now)
                          ELSE @],
               result |-> [success |-> FALSE, error |-> v.error,
                           suggestions |-> v.suggested_slots] ]
        ELSE IF UniqueSlotViolated(db.appointments, args.doctor_id,
                                   args.appointment_date, args.appointment_time)
        THEN [ db |-> db,
               result |-> [success |-> FALSE, error |-> "IntegrityError",
                           suggestions |-> <<>>] ]
        ELSE [ db |-> [db EXCEPT
                          !.appointments = @ \cup
                              {NewAppointment(db.nextApptId, args.doctor_id,
                                              args.appointment_date, args.appointment_time)},
                          !.nextApptId = @ + 1,
                          !.contexts =
                              IF tracked
                              THEN save_successful_booking(@, session_id, args.patient_email,
                                       db.nextApptId, args.appointment_date,
                                       args.appointment_time, by, db.now)
                              ELSE @],
               result |-> [success |-> TRUE, appointment_id |-> db.nextApptId] ]

\* The invocation with the handler's exception left to propagate.
invoke_tool_Unguarded(db, call, session_id, by) ==
    IF call.name \notin mcp_server_tools
    THEN [db |-> db, result |-> [success |-> FALSE, error |-> "Unknown tool"],
          exception |-> None]
    ELSE IF RequiredParams(call.name) \ DOMAIN call.args # {}
    THEN [db |-> db, result |-> Null, exception |-> "TypeError"]
    ELSE IF call.fault
    THEN [db |-> db, result |-> Null, exception |-> "SQLAlchemyError"]
    ELSE [ db |-> (IF call.name = "list_doctors" THEN list_doctors(db)
                   ELSE book_appointment(db, call.args, session_id, by)).db,
           result |-> (IF call.name = "list_doctors" THEN list_doctors(db)
                       ELSE book_appointment(db, call.args, session_id, by)).result,
           exception |-> None ]

\* mcp_server.invoke_tool(name, params, db): an unknown tool is an error
\* result; an exception of the handler (a missing required argument is a
\* TypeError of the call) is answered as an error result, the database
\* as it was.
invoke_tool(db, call, session_id, by) ==
    IF call.name \notin mcp_server_tools
    THEN [db |-> db, result |-> [success |-> FALSE, error |-> "Unknown tool"],
          exception |-> None]
    ELSE IF RequiredParams(call.name) \ DOMAIN call.args # {}
    THEN [db |-> db,
          result |-> [success |-> FALSE,
                      error |-> "missing 1 required positional argument"],
          exception |-> None]
    ELSE IF call.fault
    THEN [db |-> db, result |-> [success |-> FALSE, error |-> "database error"],
          exception |-> None]
    ELSE [ db |-> (IF call.name = "list_doctors" THEN list_doctors(db)
                   ELSE book_appointment(db, call.args, session_id, by)).db,
           result |-> (IF call.name = "list_doctors" THEN list_doctors(db)
                       ELSE book_appointment(db, call.args, session_id, by)).result,
           exception |-> None ]

\* The tool calls of one response, executed in order; call k of the turn
\* has tool_call_id k.
\* One entry of all_tool_results.  "seen" and "left" are the appointments
\* table as the call found it and as it left it.
ToolResult(tool_call_id, call, r, db) ==
    [ tool_call_id |-> tool_call_id, tool_name |-> call.name, result |-> r.result,
      seen |-> db.appointments, left |-> r.db.appointments ]

\* The calls of a response all started on the database as it was before
\* the first of them; the last one's writes remain.
RECURSIVE ExecuteToolCalls_AllAtOnce(_, _, _, _, _)
ExecuteToolCalls_AllAtOnce(calls, first_id, session_id, by, acc) ==
    IF calls = <<>> THEN acc
    ELSE LET r == invoke_tool(acc.db, Head(calls), session_id, by)
             rest == ExecuteToolCalls_AllAtOnce(Tail(calls), first_id + 1, session_id, by,
                         [acc EXCEPT !.tool_results = <<>>])
         IN [ db |-> IF Tail(calls) = <<>> THEN r.db ELSE rest.db,
              tool_results |-> acc.tool_results
                                 \o <<ToolResult(first_id, Head(calls), r, acc.db)>>
                                 \o rest.tool_results,
              exception |-> None ]

\* for tool_call in llm_response.tool_calls: result = invoke_tool(...)
RECURSIVE ExecuteToolCalls(_, _, _, _, _)
ExecuteToolCalls(calls, first_id, session_id, by, acc) ==
    IF calls = <<>> THEN acc
    ELSE LET r == invoke_tool(acc.db, Head(calls), session_id, by) IN
         IF r.exception # None
         THEN [acc EXCEPT !.exception = r.exception]
         ELSE ExecuteToolCalls(Tail(calls), first_id + 1, session_id, by,
                 [ db |-> r.db,
                   tool_results |-> Append(acc.tool_results,
                       ToolResult(first_id, Head(calls), r, acc.db)),
                   exception |-> None ])

\* llm_messages.append({"role": "tool", "tool_call_id": ..., "name": ..., "content": ...})
ToolMessage(tool_result) ==
    [ role |-> "tool", tool_call_id |-> tool_result.tool_call_id,
      name |-> tool_result.tool_name, content |-> tool_result.result ]

RECURSIVE AppendToolResults(_, _)
AppendToolResults(msgs, tool_results) ==
    IF tool_results = <<>> THEN msgs
    ELSE AppendToolResults(Append(msgs, ToolMessage(Head(tool_results))), Tail(tool_results))

\* ------------------------------------------------------ fallback synthesis
\* The synthesis before the grammar fix.
doctor_word_Plural(doctor_count) == "doctors"

doctor_word(doctor_count) == IF doctor_count = 1 THEN "doctor" ELSE "doctors"

\* The text formatted for one tool result: a successful listing, a
\* booking's confirmation or error; nothing for a failed listing or for a
\* tool the formatting has no branch for.
FormatToolResult(tool_result) ==
    IF tool_result.tool_name = "list_doctors"
    THEN IF tool_result.result.success
         THEN << [ text |-> "We have {doctor_count} {doctor_word} available:",
                   doctor_count |-> Cardinality(tool_result.result.doctors),
                   doctor_word |->
                       doctor_word(Cardinality(tool_result.result.doctors)) ] >>
         ELSE <<>>
    ELSE IF tool_result.tool_name = "book_appointment"
    THEN IF tool_result.result.success
         THEN << [ text |-> "booking confirmed",
                   appointment_id |-> tool_result.result.appointment_id ] >>
         ELSE << [ text |-> "booking failed", error |-> tool_result.result.error ] >>
    ELSE <<>>

RECURSIVE FormatToolResults(_)
FormatToolResults(tool_results) ==
    IF tool_results = <<>> THEN <<>>
    ELSE FormatToolResult(Head(tool_results)) \o FormatToolResults(Tail(tool_results))

\* The code before the duplication fix: the tool results are appended to
\* the messages again.
synthesize_final_response_old(history, tool_results) ==
    [ messages |-> AppendToolResults(history, tool_results),
      response |-> FormatToolResults(tool_results) ]

\* _synthesize_final_response(messages, tool_results): formats the tool
\* results; the messages (history) are not modified.
synthesize_final_response(history, tool_results) ==
    [ messages |-> history,
      response |-> FormatToolResults(tool_results) ]

\* ------------------------------------------------------ POST /api/chat
\* What is observed of the turn in progress, for the properties below.
\* "cancelledAt" is the value of the loop counter when the caller gave
\* the request up, -1 while it has not.
NoObservations ==
    [ llmCalls |-> 0, memoryAccessed |-> FALSE, toolInvocations |-> 0,
      llmFailed |-> FALSE, exitPath |-> None, contextsAtStart |-> {},
      requested |-> <<>>, cancelledAt |-> -1 ]

NoResult == [success |-> FALSE, status_code |-> 0]

\* An exception that leaves process_message.
InternalServerError == [success |-> FALSE, status_code |-> 500]

\* The check of the chat endpoint, kept without its .strip() part.
ChatRejects_NoStrip(user_email) == ~Truthy(user_email)

\* if not message.user_email or not message.user_email.strip(): HTTP 400
ChatRejects(user_email) == ~Truthy(user_email) \/ ~Truthy(Strip(user_email))

BadRequest ==
    [ success |-> FALSE, status_code |-> 400,
      detail |-> "user_email is required for conversation isolation" ]

\* while iteration < max_iterations, with the bound passed by two.
LoopGuard_PastBound(i, max) == i <= max + 1

\* while iteration < max_iterations
LoopGuard(i, max) == i < max

\* The envelope of the max-iterations exit, its warning left out.
MaxIterationsEnvelope_NoWarning(final_response, tool_calls_made, iterations) ==
    [ success |-> TRUE, response |-> final_response,
      tool_calls_made |-> tool_calls_made, iterations |-> iterations,
      warning |-> None, error |-> None ]

MaxIterationsEnvelope(final_response, tool_calls_made, iterations) ==
    [ success |-> TRUE, response |-> final_response,
      tool_calls_made |-> tool_calls_made, iterations |-> iterations,
      warning |-> "Max iterations reached - LLM may not be responding properly",
      error |-> None ]

FinalEnvelope(final_content, tool_calls_made, iterations) ==
    [ success |-> TRUE, response |-> final_content,
      tool_calls_made |-> tool_calls_made, iterations |-> iterations,
      warning |-> None, error |-> None ]

Apology ==
    <<[text |-> "I apologize, but I'm having trouble processing your request. Please try again."]>>

\* The no-results exit answered as a success without text.
NoResultsEnvelope_EmptySuccess(iterations) ==
    [ success |-> TRUE, response |-> <<>>,
      tool_calls_made |-> 0, iterations |-> iterations,
      warning |-> None, error |-> None ]

NoResultsEnvelope(iterations) ==
    [ success |-> FALSE, response |-> Apology,
      tool_calls_made |-> 0, iterations |-> iterations,
      warning |-> None, error |-> "Max iterations reached without results" ]

\* The cleanup job before its first run.
IdleSweep == [pc |-> "idle", now |-> 0, candidates |-> {}, deleted |-> {}, runs |-> 0]

\* A /api/chat request arrives: the endpoint's check, then the start of
\* process_message (its own "if not user_email" check, the memory context
\* for the prompt) up to the agent loop.
Chat(session_id, user_email) ==
    /\ pc \in {"idle", "done", "rejected", "crashed"}
    /\ turns < MaxTurns
    /\ turns' = turns + 1
    /\ request' = [session_id |-> session_id, user_email |-> user_email,
                   user_message |-> [turn |-> turns + 1]]
    /\ iteration' = 0
    /\ all_tool_results' = <<>>
    /\ IF ChatRejects(user_email) \/ ~Truthy(user_email)
       THEN /\ pc' = "rejected"
            /\ result' = BadRequest
            /\ memory_context' = <<>>
            /\ llm_messages' = <<>>
            /\ obs' = [NoObservations EXCEPT !.contextsAtStart = conversation_contexts]
       ELSE /\ pc' = "await_model"
            /\ result' = NoResult
            /\ memory_context' =
                  get_context_for_prompt(conversation_contexts, session_id, user_email)
            /\ llm_messages' =
                  << [role |-> "system", content |-> memory_context'],
                     [role |-> "user", content |-> user_email] >>
            /\ obs' = [NoObservations EXCEPT !.memoryAccessed = TRUE,
                                              !.contextsAtStart = conversation_contexts]
    /\ UNCHANGED <<conversation_contexts, max_iterations>>
    /\ UNCHANGED <<bookingVars, chatVars, memVars>>
    /\ UNCHANGED restVars

\* One pass of "while iteration < max_iterations": the model is called;
\* without tool calls its content (or the synthesis of the tool results,
\* when the content is empty) is the final response; otherwise the tool
\* calls are executed and their results appended to llm_messages.
AgentIteration(outcome) ==
    /\ pc = "await_model"
    /\ LoopGuard(iteration, max_iterations)
    /\ iteration' = iteration + 1
    /\ LET llm_response == call_llm(outcome)
           tool_calls == llm_response.tool_calls
       IN IF tool_calls = <<>>
          THEN LET synth == synthesize_final_response(llm_messages, all_tool_results)
                   useSynth == llm_response.content = <<>> /\ all_tool_results # <<>>
                   final_content == IF useSynth THEN synth.response
                                    ELSE llm_response.content
               IN /\ llm_messages' = IF useSynth THEN synth.messages ELSE llm_messages
                  /\ result' = FinalEnvelope(final_content, Len(all_tool_results),
                                             iteration')
                  /\ conversation_contexts' =
                        update_message_count(conversation_contexts, request.session_id,
                                             request.user_email, request.user_message,
                                             final_content, request.user_email, clock)
                  /\ pc' = "done"
                  /\ obs' = [obs EXCEPT !.llmCalls = @ + 1,
                                        !.llmFailed = LLMFailure(outcome),
                                        !.exitPath = "final"]
                  /\ UNCHANGED <<appointments, nextApptId, all_tool_results>>
          ELSE LET done == ExecuteToolCalls(tool_calls, Len(all_tool_results) + 1,
                               request.session_id, request.user_email,
                               [ db |-> Db(appointments, nextApptId,
                                           conversation_contexts, clock),
                                 tool_results |-> <<>>, exception |-> None ])
               IN /\ appointments' = done.db.appointments
                  /\ nextApptId' = done.db.nextApptId
                  /\ conversation_contexts' = done.db.contexts
                  /\ all_tool_results' = all_tool_results \o done.tool_results
                  /\ llm_messages' = AppendToolResults(llm_messages, done.tool_results)
                  /\ obs' = [obs EXCEPT !.llmCalls = @ + 1,
                                        !.toolInvocations = @ + Len(done.tool_results),
                                        !.requested = @ \o tool_calls]
                  /\ IF done.exception # None
                     THEN /\ pc' = "crashed"
                          /\ result' = InternalServerError
                     ELSE UNCHANGED <<pc, result>>
    /\ UNCHANGED <<request, memory_context, max_iterations, turns>>
    /\ UNCHANGED <<bk, chatVars, memVars>>
    /\ UNCHANGED restVars

\* The caller gives the request up while the loop runs (axios: timeout
\* 60000, ECONNABORTED).  Nothing in process_message looks at the
\* connection: the server's state is as before.
CallerCancels ==
    /\ pc = "await_model"
    /\ obs.cancelledAt = -1
    /\ obs' = [obs EXCEPT !.cancelledAt = iteration]
    /\ UNCHANGED <<conversation_contexts, pc, request, memory_context, iteration,
                   max_iterations, llm_messages, all_tool_results, result, turns>>
    /\ UNCHANGED <<bookingVars, chatVars, memVars>>
    /\ UNCHANGED restVars

\* The loop ended by its bound: the tool results, when there are any, are
\* synthesized into the response; without results the failure is returned.
MaxIterationsExit ==
    /\ pc = "await_model"
    /\ ~LoopGuard(iteration, max_iterations)
    /\ pc' = "done"
    /\ obs' = [obs EXCEPT !.exitPath = "max_iterations"]
    /\ IF all_tool_results # <<>>
       THEN LET synth == synthesize_final_response(llm_messages, all_tool_results) IN
            /\ llm_messages' = synth.messages
            /\ result' = MaxIterationsEnvelope(synth.response, Len(all_tool_results),
                                               iteration)
            /\ conversation_contexts' =
                  update_message_count(conversation_contexts, request.session_id,
                                       request.user_email, request.user_message,
                                       synth.response, request.user_email, clock)
       ELSE /\ result' = NoResultsEnvelope(iteration)
            /\ UNCHANGED <<llm_messages, conversation_contexts>>
    /\ UNCHANGED <<request, memory_context, iteration, max_iterations, all_tool_results,
                   turns>>
    /\ UNCHANGED <<bookingVars, chatVars, memVars>>
    /\ UNCHANGED restVars

AgentInit ==
    /\ conversation_contexts = {}
    /\ pc = "idle"
    /\ request = [session_id |-> None, user_email |-> None, user_message |-> Null]
    /\ memory_context = <<>>
    /\ iteration = 0
    /\ max_iterations \in 0..MaxIterationsBound
    /\ llm_messages = <<>>
    /\ all_tool_results = <<>>
    /\ result = NoResult
    /\ turns = 0
    /\ obs = NoObservations
    /\ clock = 0
    /\ session_id_unique = FALSE
    /\ mem = <<>>
    /\ sweep = IdleSweep
    /\ committed = <<>>

AgentNext ==
    \/ \E s \in SessionIds, e \in RequestEmails : Chat(s, e)
    \/ \E outcome \in LLMOutcomes : AgentIteration(outcome)
    \/ MaxIterationsExit

\* The same server with a caller that may give a request up.
CancelNext ==
    \/ \E s \in SessionIds, e \in RequestEmails : Chat(s, e)
    \/ \E outcome \in LLMOutcomes : AgentIteration(outcome)
    \/ MaxIterationsExit
    \/ CallerCancels

\* ====================================================================
\* The memory store under concurrent requests, and the cleanup job
\* ====================================================================
\* Concurrent requests that use the store.
NumWorkers == 2

\* Operations they perform in all.
MaxCalls == 2

\* Runs of the cleanup job.
MaxSweeps == 1

\* The last hour the clock reaches.
MaxClock == 48

Workers == 1..NumWorkers

Mutations == {"update_message_count", "save_attempted_date"}

StoreOps == {"get_or_create_context", "get_context_for_prompt"} \cup Mutations

\* The calls made: every method without a patient_email, reads and
\* mutations of the two users of one session.
StoreCalls ==
    { [op |-> op, patient_email |-> ""] : op \in StoreOps }
    \cup { [op |-> op, patient_email |-> e] :
               op \in {"get_or_create_context", "update_message_count"}, e \in Emails }
    \cup { [op |-> op, patient_email |-> "alice@example.com"] :
               op \in {"get_context_for_prompt", "save_attempted_date"} }

Key(session_id, patient_email) == <<session_id, patient_email>>

KeyOf(row) == Key(row.session_id, row.patient_email)

StoreKeys == {Key(s, e) : s \in SessionIds, e \in Emails}

IdleWorker ==
    [ pc |-> "idle", op |-> None, session_id |-> None, patient_email |-> None,
      local |-> Null, outcome |-> None, returned |-> Null, calls |-> 0 ]

\* The keys whose row a request has read for update and not yet written.
LockedKeys == { Key(mem[w].session_id, mem[w].patient_email) :
                    w \in {x \in Workers : mem[x].pc = "holding"} }

\* No row lock: the read for update never waits.
CanLock_NoLock(locked, key) == TRUE

\* One lock for the whole table.
CanLock_Table(locked, key) == locked = {}

\* The read for update of a row waits while another request holds that row.
CanLock(locked, key) == key \notin locked

\* The INSERT of a new row fails on a table that carries the column
\* constraint UNIQUE(session_id) when the session has a row of another user.
InsertFails(ctxs, session_id, patient_email) ==
    /\ session_id_unique
    /\ QueryContext(ctxs, session_id, patient_email) = {}
    /\ \E r \in ctxs : r.session_id = session_id

\* What a mutation changes in the row it has read.
Mutated(op, row, by) ==
    IF op = "update_message_count"
    THEN WithMessageCounted(row, by, [turn |-> row.message_count + 1], <<>>)
    ELSE WithAttemptedDate(row, 7, "holiday", by)

NoneCommitted == [messages |-> 0, dates |-> 0]

Counted(op, c) ==
    IF op = "update_message_count" THEN [c EXCEPT !.messages = @ + 1]
    ELSE [c EXCEPT !.dates = @ + 1]

RECURSIVE TotalCalls(_)
TotalCalls(n) == IF n = 0 THEN 0 ELSE mem[n].calls + TotalCalls(n - 1)

\* A request calls a method of the store.
MemCall(w, op, session_id, patient_email) ==
    /\ mem[w].pc = "idle"
    /\ TotalCalls(NumWorkers) < MaxCalls
    /\ mem' = [mem EXCEPT ![w] =
                  [ pc |-> "called", op |-> op, session_id |-> session_id,
                    patient_email |-> patient_email, local |-> Null,
                    outcome |-> None, returned |-> Null, calls |-> @.calls + 1 ]]
    /\ UNCHANGED <<conversation_contexts, clock, session_id_unique, sweep, committed>>
    /\ UNCHANGED <<bookingVars, chatVars, turnVars>>
    /\ UNCHANGED restVars

\* get_context_for_prompt: "" without a patient_email, else the summary of
\* the row of the pair.
MemRead(w) ==
    /\ mem[w].pc = "called"
    /\ mem[w].op = "get_context_for_prompt"
    /\ mem' = [mem EXCEPT ![w].pc = "idle",
                          ![w].outcome = "returned",
                          ![w].returned =
                              get_context_for_prompt(conversation_contexts,
                                  mem[w].session_id, mem[w].patient_email)]
    /\ UNCHANGED <<conversation_contexts, clock, session_id_unique, sweep, committed>>
    /\ UNCHANGED <<bookingVars, chatVars, turnVars>>
    /\ UNCHANGED restVars

\* The other methods raise ValueError without a patient_email.
MemRaise(w) ==
    /\ mem[w].pc = "called"
    /\ mem[w].op # "get_context_for_prompt"
    /\ ~Truthy(mem[w].patient_email)
    /\ mem' = [mem EXCEPT ![w].pc = "idle", ![w].outcome = "ValueError"]
    /\ UNCHANGED <<conversation_contexts, clock, session_id_unique, sweep, committed>>
    /\ UNCHANGED <<bookingVars, chatVars, turnVars>>
    /\ UNCHANGED restVars

\* get_or_create_context as the first step of a method: the row of the
\* pair is read for update, and inserted when there is none.
MemBegin(w) ==
    LET s == mem[w].session_id
        e == mem[w].patient_email
    IN  /\ mem[w].pc = "called"
        /\ mem[w].op # "get_context_for_prompt"
        /\ Truthy(e)
        /\ CanLock(LockedKeys, Key(s, e))
        /\ IF InsertFails(conversation_contexts, s, e)
           THEN /\ mem' = [mem EXCEPT ![w].pc = "idle",
                                      ![w].outcome = "IntegrityError"]
                /\ UNCHANGED conversation_contexts
           ELSE /\ conversation_contexts' =
                      get_or_create_context(conversation_contexts, s, e, clock)
                /\ IF mem[w].op = "get_or_create_context"
                   THEN mem' = [mem EXCEPT ![w].pc = "idle",
                                           ![w].outcome = "returned"]
                   ELSE mem' = [mem EXCEPT ![w].pc = "holding",
                                           ![w].local =
                                               ContextRow(conversation_contexts, s, e,
                                                          clock)]
        /\ UNCHANGED <<clock, session_id_unique, sweep, committed>>
        /\ UNCHANGED <<bookingVars, chatVars, turnVars>>
        /\ UNCHANGED restVars

\* The second step of a mutation: the row that was read is written back
\* changed; the UPDATE of a row that is gone raises.
MemCommit(w) ==
    LET s == mem[w].session_id
        e == mem[w].patient_email
    IN  /\ mem[w].pc = "holding"
        /\ IF QueryContext(conversation_contexts, s, e) = {}
           THEN /\ mem' = [mem EXCEPT ![w].pc = "idle", ![w].local = Null,
                                      ![w].outcome = "StaleDataError"]
                /\ UNCHANGED <<conversation_contexts, committed>>
           ELSE /\ conversation_contexts' =
                      update_context(conversation_contexts, s, e,
                                     Mutated(mem[w].op, mem[w].local, e), clock)
                /\ committed' = [committed EXCEPT ![Key(s, e)] = Counted(mem[w].op, @)]
                /\ mem' = [mem EXCEPT ![w].pc = "idle", ![w].local = Null,
                                      ![w].outcome = "returned"]
        /\ UNCHANGED <<clock, session_id_unique, sweep>>
        /\ UNCHANGED <<bookingVars, chatVars, turnVars>>
        /\ UNCHANGED restVars

\* Time passes, a day at a time.
Tick ==
    /\ clock + TTL_HOURS <= MaxClock
    /\ clock' = clock + TTL_HOURS
    /\ UNCHANGED <<conversation_contexts, session_id_unique, mem, sweep, committed>>
    /\ UNCHANGED <<bookingVars, chatVars, turnVars>>
    /\ UNCHANGED restVars

\* The row is deleted whatever it holds by now.
ShouldDelete_Scanned(row, now) == TRUE

\* The condition of the DELETE, evaluated on the row as it is when deleted.
ShouldDelete(row, now) == row.expires_at < now

\* cleanup_expired_contexts(db): the job (cron, scheduled task) reads the
\* time and finds the rows past their expiry ...
SweepScan ==
    /\ sweep.pc = "idle"
    /\ sweep.runs < MaxSweeps
    /\ sweep' = [sweep EXCEPT !.pc = "scanned", !.now = clock, !.runs = @ + 1,
                              !.candidates =
                                  { KeyOf(r) : r \in { x \in conversation_contexts :
                                                          x.expires_at < clock } }]
    /\ UNCHANGED <<conversation_contexts, clock, session_id_unique, mem, committed>>
    /\ UNCHANGED <<bookingVars, chatVars, turnVars>>
    /\ UNCHANGED restVars

\* ... and deletes them, after the requests that hold one of them.
SweepDelete ==
    /\ sweep.pc = "scanned"
    /\ sweep.candidates \cap LockedKeys = {}
    /\ LET victims == { r \in conversation_contexts :
                           /\ KeyOf(r) \in sweep.candidates
                           /\ ShouldDelete(r, sweep.now) }
       IN /\ conversation_contexts' = conversation_contexts \ victims
          /\ committed' = [k \in DOMAIN committed |->
                              IF k \in {KeyOf(r) : r \in victims} THEN NoneCommitted
                              ELSE committed[k]]
          /\ sweep' = [sweep EXCEPT !.pc = "idle",
                                    !.deleted = @ \cup
                                        { [ updated_at |-> r.updated_at,
                                            expires_at |-> r.expires_at,
                                            now |-> sweep.now ] : r \in victims }]
    /\ UNCHANGED <<clock, session_id_unique, mem>>
    /\ UNCHANGED <<bookingVars, chatVars, turnVars>>
    /\ UNCHANGED restVars

\* The turn variables at rest, the table empty.
TurnInit ==
    /\ conversation_contexts = {}
    /\ pc = "idle"
    /\ request = [session_id |-> None, user_email |-> None, user_message |-> Null]
    /\ memory_context = <<>>
    /\ iteration = 0
    /\ max_iterations = 0
    /\ llm_messages = <<>>
    /\ all_tool_results = <<>>
    /\ result = NoResult
    /\ turns = 0
    /\ obs = NoObservations

\* The table was created either by the schema with session_id UNIQUE, or
\* without that column constraint.
MemoryInit ==
    /\ TurnInit
    /\ clock = 0
    /\ session_id_unique \in BOOLEAN
    /\ mem = [w \in Workers |-> IdleWorker]
    /\ sweep = IdleSweep
    /\ committed = [k \in StoreKeys |-> NoneCommitted]

MemoryNext ==
    \/ \E w \in Workers, c \in StoreCalls, s \in SessionIds :
          MemCall(w, c.op, s, c.patient_email)
    \/ \E w \in Workers : MemRead(w)
    \/ \E w \in Workers : MemRaise(w)
    \/ \E w \in Workers : MemBegin(w)
    \/ \E w \in Workers : MemCommit(w)
    \/ Tick
    \/ SweepScan
    \/ SweepDelete

\* Two requests of alice@example.com refer to (session123, alice) for the
\* first time, on a table that is empty or holds the row another user of
\* the session made earlier.
FirstReferenceInit ==
    /\ conversation_contexts \in
          { {}, {NewContext("session123", "bob@example.com", 0)} }
    /\ pc = "idle"
    /\ request = [session_id |-> None, user_email |-> None, user_message |-> Null]
    /\ memory_context = <<>>
    /\ iteration = 0
    /\ max_iterations = 0
    /\ llm_messages = <<>>
    /\ all_tool_results = <<>>
    /\ result = NoResult
    /\ turns = 0
    /\ obs = NoObservations
    /\ clock = 0
    /\ session_id_unique \in BOOLEAN
    /\ mem = [w \in Workers |-> IdleWorker]
    /\ sweep = IdleSweep
    /\ committed = [k \in StoreKeys |-> NoneCommitted]

FirstReferenceNext ==
    \/ \E w \in Workers, op \in {"get_or_create_context"} \cup Mutations :
          MemCall(w, op, "session123", "alice@example.com")
    \/ \E w \in Workers : MemBegin(w)
    \/ \E w \in Workers : MemCommit(w)

\* ====================================================================
\* The MCP server's tool registry
\* ====================================================================
\* Names a tool may be registered under, and the descriptors (name,
\* description, parameters, handler) that may be registered, by version.
ToolNames == mcp_server_tools \cup {"get_doctor_stats"}

Descriptors == {"v1", "v2", "v3"}

NoRegisterCall == [name |-> None, descriptor |-> Null, held |-> Null, raised |-> None]

\* self.tools["tool_name"] = {...}
register(registry, name, descriptor) == [registry EXCEPT ![name] = [handler |-> descriptor]]

\* A tool is added to the server's registry.
RegisterTool(name, descriptor) ==
    /\ tools' = register(tools, name, descriptor)
    /\ registerCall' = [name |-> name, descriptor |-> [handler |-> descriptor],
                        held |-> tools[name], raised |-> None]
    /\ UNCHANGED <<bookingVars, chatVars, agentVars, memVars>>
    /\ UNCHANGED renderVars
    /\ UNCHANGED doctorDashboardVars

\* The server as constructed: its built-in tools are registered.
RegistryInit ==
    /\ tools = [n \in ToolNames |->
                  IF n \in mcp_server_tools THEN [handler |-> "v1"] ELSE Null]
    /\ registerCall = NoRegisterCall

RegistryNext == \E n \in ToolNames, d \in Descriptors : RegisterTool(n, d)

\* ====================================================================
\* Counts rendered with a noun
\* ====================================================================
\* Largest count rendered.
MaxCount == 4

\* PatientDashboard, sidebar header:
\* {filteredDoctors.length} {filteredDoctors.length === 1 ? "doctor" : "doctors"}
SidebarCount(length) ==
    [count |-> length, noun |-> IF length = 1 THEN "doctor" ELSE "doctors"]

\* _synthesize_final_response: "We have {doctor_count} {doctor_word} available:"
SynthesisCount(doctor_count) ==
    [count |-> doctor_count, noun |-> doctor_word(doctor_count)]

\* 'tool' + (n > 1 ? 's' : '') and 'iteration' + (n > 1 ? 's' : '')
Suffixed(stem, n) == [stem |-> stem, suffix |-> IF n > 1 THEN "s" ELSE ""]

\* DoctorDashboard, report meta: rendered only when tool_calls_made > 0.
ReportMeta(report) ==
    IF report.tool_calls_made > 0
    THEN [tools |-> [count |-> report.tool_calls_made,
                     noun |-> Suffixed("tool", report.tool_calls_made)],
          iterations |-> [count |-> report.iterations,
                          noun |-> Suffixed("iteration", report.iterations)]]
    ELSE Null

\* The envelopes a report can be: a turn that made tool calls ran at
\* least one iteration.
Reports ==
    { [tool_calls_made |-> n, iterations |-> i] :
        n \in 0..MaxCount, i \in 0..MaxCount } \
    { [tool_calls_made |-> n, iterations |-> 0] : n \in 1..MaxCount }

RenderSidebar(length) ==
    /\ rendered' = [rendered EXCEPT !.sidebar = SidebarCount(length)]
    /\ UNCHANGED <<bookingVars, chatVars, agentVars, memVars>>
    /\ UNCHANGED registryVars
    /\ UNCHANGED doctorDashboardVars

RenderSynthesis(doctor_count) ==
    /\ rendered' = [rendered EXCEPT !.synthesis = SynthesisCount(doctor_count)]
    /\ UNCHANGED <<bookingVars, chatVars, agentVars, memVars>>
    /\ UNCHANGED registryVars
    /\ UNCHANGED doctorDashboardVars

RenderReport(report) ==
    /\ rendered' = [rendered EXCEPT !.report = ReportMeta(report)]
    /\ UNCHANGED <<bookingVars, chatVars, agentVars, memVars>>
    /\ UNCHANGED registryVars
    /\ UNCHANGED doctorDashboardVars

RenderInit == rendered = [sidebar |-> Null, synthesis |-> Null, report |-> Null]

RenderNext ==
    \/ \E n \in 0..MaxCount : RenderSidebar(n)
    \/ \E n \in 0..MaxCount : RenderSynthesis(n)
    \/ \E r \in Reports : RenderReport(r)

\* ====================================================================
\* useDoctorDashboard and the DoctorDashboard component
\* ====================================================================
\* Number of requests the doctor dashboard issues.
MaxFetches == 4

\* Texts of the report query input.
ReportQueries == {"Show me today's appointments", " "}

\* setLoading(true); setError(null); and the axios call is issued for the
\* doctorId of the render the callback was made in.
StartCall(dash, call) == [dash EXCEPT !.loading = TRUE, !.error = Null, !.issued = @ + 1]

PendingCall(dash, call) == [id |-> dash.issued + 1, call |-> call, doctor_id |-> dash.doctorId]

\* The doctor or the date range changes: the fetch effect runs after the
\* render and calls fetchStats and fetchAppointments one after the other,
\* each up to its await.
FetchEffect(id) ==
    /\ doctorDashboard.issued + 2 <= MaxFetches
    /\ LET selected == [doctorDashboard EXCEPT !.doctorId = id]
           afterStats == StartCall(selected, "fetchStats")
           afterAppointments == StartCall(afterStats, "fetchAppointments")
       IN /\ doctorDashboard' = afterAppointments
          /\ fetching' = fetching \cup {PendingCall(selected, "fetchStats"),
                                       PendingCall(afterStats, "fetchAppointments")}
    /\ UNCHANGED <<bookingVars, chatVars, agentVars, memVars>>
    /\ UNCHANGED <<registryVars, renderVars>>

\* handleGenerateReport(query) calling generateReport(query), up to the
\* await: both return at once on a blank query, generateReport also
\* without a doctorId; the button is disabled while loading.
handleGenerateReport(query) ==
    /\ ~doctorDashboard.loading
    /\ doctorDashboard.issued < MaxFetches
    /\ IF trim(query) = "" \/ doctorDashboard.doctorId = 0
       THEN UNCHANGED doctorDashboardVars
       ELSE /\ doctorDashboard' = StartCall(doctorDashboard, "generateReport")
            /\ fetching' = fetching \cup {PendingCall(doctorDashboard, "generateReport")}
    /\ UNCHANGED <<bookingVars, chatVars, agentVars, memVars>>
    /\ UNCHANGED <<registryVars, renderVars>>

\* finally { setLoading(false); }
Finally(dash) == [dash EXCEPT !.loading = FALSE]

\* A call's response arrives: the rest of its try block and its finally.
CallResolved(c) ==
    /\ c \in fetching
    /\ LET got == IF c.call = "fetchStats"
                    THEN [doctorDashboard EXCEPT !.stats = [doctor_id |-> c.doctor_id]]
                  ELSE IF c.call = "fetchAppointments"
                    THEN [doctorDashboard EXCEPT !.appointments = <<[doctor_id |-> c.doctor_id]>>]
                  ELSE doctorDashboard
       IN doctorDashboard' = Finally(got)
    /\ fetching' = fetching \ {c}
    /\ UNCHANGED <<bookingVars, chatVars, agentVars, memVars>>
    /\ UNCHANGED <<registryVars, renderVars>>

\* A call fails: its catch block and its finally.
CallRejected(c) ==
    /\ c \in fetching
    /\ doctorDashboard' = Finally([doctorDashboard EXCEPT !.error = "err.message"])
    /\ fetching' = fetching \ {c}
    /\ UNCHANGED <<bookingVars, chatVars, agentVars, memVars>>
    /\ UNCHANGED <<registryVars, renderVars>>

\* No doctor is selected yet (doctorId null is written 0; "!doctorId" holds
\* for both).
DoctorDashboardInit ==
    /\ doctorDashboard = [doctorId |-> 0, stats |-> Null, appointments |-> <<>>,
                          loading |-> FALSE, error |-> Null, issued |-> 0]
    /\ fetching = {}

DoctorDashboardNext ==
    \/ \E id \in DoctorIds : FetchEffect(id)
    \/ \E query \in ReportQueries : handleGenerateReport(query)
    \/ \E c \in fetching : CallResolved(c)
    \/ \E c \in fetching : CallRejected(c)

RestInit == RegistryInit /\ RenderInit /\ DoctorDashboardInit

Init == BookingInit /\ ChatInit /\ AgentInit /\ RestInit

InitMemory == BookingInit /\ ChatInit /\ MemoryInit /\ RestInit

SpecMemory == InitMemory /\ [][MemoryNext]_vars

SpecBooking == Init /\ [][BookingNext]_vars

SpecChat == Init /\ [][ChatNext]_vars

SpecAgent == Init /\ [][AgentNext]_vars

SpecCancel == Init /\ [][CancelNext]_vars

SpecRegistry == Init /\ [][RegistryNext]_vars

SpecRender == Init /\ [][RenderNext]_vars

SpecDoctorDashboard == Init /\ [][DoctorDashboardNext]_vars

\* The hook of one browser whose userEmail is fixed while it is mounted:
\* another user takes over only through a page load.
RefreshNext ==
    \/ \E e \in Emails : Mount(e)
    \/ Unmount
    \/ SendMessage
    \/ \E r \in inflight : ChatResponse(r)
    \/ \E r \in inflight : ChatFailure(r)
    \/ ClearMessages

SpecRefresh == Init /\ [][RefreshNext]_vars

\* The hook with callers passing any text, and every pending request
\* settling in the end (axios gives a request up after 60 s).
ChatLiveNext ==
    \/ \E e \in Emails : Mount(e)
    \/ Unmount
    \/ \E text \in MessageTexts : sendMessage(text)
    \/ Settle
    \/ ClearMessages

SpecChatLive == Init /\ [][ChatLiveNext]_vars /\ WF_vars(Settle)

\* The patient dashboard: messages are sent through its handler only.
DashboardNext ==
    \/ \E e \in Emails : Mount(e)
    \/ Unmount
    \/ handleSendMessage
    \/ \E r \in inflight : ChatResponse(r)
    \/ \E r \in inflight : ChatFailure(r)
    \/ ClearMessages

SpecDashboard == Init /\ [][DashboardNext]_vars

\* Two tabs of one browser with the same userEmail, neither closed nor
\* cleared.
TabsNext ==
    \/ \E e \in Emails : Mount(e)
    \/ SendMessage
    \/ \E r \in inflight : ChatResponse(r)
    \/ \E r \in inflight : ChatFailure(r)
    \/ OtherTabMount
    \/ OtherTabSend

SpecTabs == Init /\ [][TabsNext]_vars

\* One browser's hook and the chat endpoint side by side: the hook sends
\* and settles its requests while the endpoint runs its turns.
ConversationNext ==
    \/ \E e \in Emails : Mount(e)
    \/ SendMessage
    \/ \E r \in inflight : ChatResponse(r)
    \/ \E r \in inflight : ChatFailure(r)
    \/ \E r \in inflight, s \in SessionIds : Chat(s, r.user_email)
    \/ \E o \in LLMOutcomes : AgentIteration(o)
    \/ MaxIterationsExit

SpecConversation == Init /\ [][ConversationNext]_vars

InitFirstReference == BookingInit /\ ChatInit /\ FirstReferenceInit /\ RestInit

SpecFirstReference == InitFirstReference /\ [][FirstReferenceNext]_vars

InitValidator == ValidatorInit /\ ChatInit /\ AgentInit /\ RestInit

SpecValidator == InitValidator /\ [][ValidatorNext]_vars

\* The validator called a second time with the inputs of the first call,
\* before or after the first caller's insert.
ValidateAgain ==
    /\ bk[1].pc # "idle"
    /\ BookValidate(2, bk[1].doctor_id, bk[1].date, bk[1].time)

TwiceNext ==
    \/ \E d \in DoctorIds, date \in ValidatorDates, time \in ValidatorTimes :
          BookValidate(1, d, date, time)
    \/ ValidateAgain
    \/ \E c \in {1, 2} : BookInsert(c)

SpecTwice == InitValidator /\ [][TwiceNext]_vars

\* ====================================================================
\* Claims
\* ====================================================================
Active(a) == a.status # "cancelled"

Overlap(a, b) ==
    /\ a.appointment_time < EndTime(b)
    /\ b.appointment_time < EndTime(a)

SameSlotRequested(S) ==
    \A c1, c2 \in S :
        /\ bk[c1].doctor_id = bk[c2].doctor_id
        /\ bk[c1].date = bk[c2].date
        /\ bk[c1].time = bk[c2].time

\* C2: when every client has asked for the identical, bookable slot (its
\* date and time pass validation, no booking of it was cancelled) and all
\* attempts have ended, exactly one attempt succeeded and every other one
\* got a conflict response (error_type "conflict").
C2_ExactlyOneSuccessOthersConflict ==
    ( /\ \A c \in Clients : bk[c].pc = "done"
      /\ SameSlotRequested(Clients)
      /\ \A c \in Clients :
            /\ validate_date_against_availability(bk[c].date, Doctors[bk[c].doctor_id]) = None
            /\ validate_time_against_availability(bk[c].time, Doctors[bk[c].doctor_id]) = None
      /\ \A a \in appointments : Active(a) )
    => /\ Cardinality({c \in Clients : bk[c].success}) = 1
       /\ \A c \in Clients : ~bk[c].success => bk[c].error_type = "conflict"

\* C9: no two active bookings of the same provider on the same date have
\* overlapping [start, start + duration) intervals.
C9_NoOverlappingActiveBookings ==
    \A a, b \in appointments :
        ( /\ a # b
          /\ Active(a) /\ Active(b)
          /\ a.doctor_id = b.doctor_id
          /\ a.appointment_date = b.appointment_date )
        => ~Overlap(a, b)

\* C10: no chat message and no session id produced while the hook ran for
\* one userEmail is stored under another user's localStorage keys or shown
\* in another user's conversation.
C10_ChatIsolatedPerUser ==
    \A e \in Emails :
        /\ localStorage[MessagesKey(e)] # Null =>
              \A i \in 1..Len(JSONparse(localStorage[MessagesKey(e)])) :
                  JSONparse(localStorage[MessagesKey(e)])[i].owner = e
        /\ localStorage[SessionKey(e)] # Null => localStorage[SessionKey(e)].for = e
        /\ (mounted /\ userEmail = e) =>
              /\ \A i \in 1..Len(messages) : messages[i].owner = e
              /\ sessionId # Null => sessionId.for = e

\* ---- the agent loop and the conversation memory
ToolMessages == { i \in DOMAIN llm_messages : llm_messages[i].role = "tool" }

\* The "by" marks of everything stored in a context row.
RecordedBy(row) ==
    (IF row.context_data.selected_doctor # Null
     THEN {row.context_data.selected_doctor.by} ELSE {})
    \cup { row.context_data.attempted_dates[i].by :
             i \in DOMAIN row.context_data.attempted_dates }
    \cup (IF row.context_data.last_rejection_reason # Null
          THEN {row.context_data.last_rejection_reason.by} ELSE {})
    \cup (IF row.context_data.last_successful_booking # Null
          THEN {row.context_data.last_successful_booking.by} ELSE {})
    \cup (IF row.last_message # Null THEN {row.last_message.by} ELSE {})

\* The "by" marks of what a rendered memory summary shows.
ShownBy(summary) ==
    UNION { IF summary[i].line = "attempted"
            THEN { summary[i].value[j].by : j \in DOMAIN summary[i].value }
            ELSE { summary[i].value.by } : i \in DOMAIN summary }

\* C1: the context stored under (session, A) holds nothing recorded by a
\* request made as (session, B), and the memory summary rendered for a
\* request shows only what requests of the same user recorded.
C1_ContextIsolatedPerUser ==
    /\ \A row \in conversation_contexts : RecordedBy(row) \subseteq {row.patient_email}
    /\ pc \in {"await_model", "done"} => ShownBy(memory_context) \subseteq {request.user_email}

\* C3: a turn makes at most max_iterations + 1 calls of the model, whatever
\* the model answers.
C3_BoundedModelCalls == obs.llmCalls <= max_iterations + 1

\* C3 witness: the model asked for tools in every pass and the turn ended
\* at the bound.
C3_Witness ==
    /\ pc = "done"
    /\ obs.exitPath = "max_iterations"
    /\ max_iterations = MaxIterationsBound
    /\ obs.llmCalls = max_iterations

\* C4: every tool_call_id appears at most once among the tool messages of
\* the transcript.
C4_CallIdAtMostOnce ==
    \A i, j \in ToolMessages :
        llm_messages[i].tool_call_id = llm_messages[j].tool_call_id => i = j

\* C4 witness: tool results of two passes are in the transcript and the
\* fallback synthesis has run.
C4_Witness ==
    /\ pc = "done"
    /\ obs.exitPath = "max_iterations"
    /\ iteration >= 2
    /\ Cardinality(ToolMessages) >= 2
    /\ result.response = FormatToolResults(all_tool_results)

C6_ModelFailureLeavesMemory ==
    (pc = "done" /\ obs.llmFailed) =>
        /\ ~result.success
        /\ conversation_contexts = obs.contextsAtStart

\* C7: when the loop ends by its bound without any tool result, the
\* response is the failure envelope: success false, the generic apology.
C7_NoResultsFailure ==
    (pc = "done" /\ obs.exitPath = "max_iterations" /\ all_tool_results = <<>>) =>
        /\ result.success = FALSE
        /\ result.response = Apology
        /\ result.error = "Max iterations reached without results"
        /\ result.tool_calls_made = 0

\* C7 witness: the loop ended by its bound with no tool result.
C7_Witness ==
    /\ pc = "done"
    /\ obs.exitPath = "max_iterations"
    /\ all_tool_results = <<>>
    /\ ~result.success

\* C8: when the loop ends by its bound with at least one tool result, the
\* response is a success synthesized from the tool results and carries
\* the warning.
C8_ResultsSynthesizedWithWarning ==
    (pc = "done" /\ obs.exitPath = "max_iterations" /\ all_tool_results # <<>>) =>
        /\ result.success = TRUE
        /\ result.response = FormatToolResults(all_tool_results)
        /\ result.tool_calls_made = Len(all_tool_results)
        /\ result.warning # None

\* C8 witness: the loop ended by its bound after a booking and a listing.
C8_Witness ==
    /\ pc = "done"
    /\ obs.exitPath = "max_iterations"
    /\ Len(all_tool_results) >= 2
    /\ \E i \in DOMAIN all_tool_results : all_tool_results[i].tool_name = "book_appointment"
    /\ result.success

\* ---- the validator
\* The slot starts of a doctor's working day, and the open ones: the slot
\* lies within the working hours and overlaps no active booking.
SlotStarts(doctor) ==
    { t \in doctor.available_start_time..doctor.available_end_time :
        /\ (t - doctor.available_start_time) % doctor.slot_duration_minutes = 0
        /\ t + doctor.slot_duration_minutes <= doctor.available_end_time }

OpenSlots(appts, doctor_id, appt_date) ==
    { t \in SlotStarts(Doctors[doctor_id]) :
        \A a \in appts :
            ( /\ Active(a)
              /\ a.doctor_id = doctor_id
              /\ a.appointment_date = appt_date )
            => \/ EndTime(a) <= t
               \/ t + Doctors[doctor_id].slot_duration_minutes <= a.appointment_time }

\* The n smallest elements of a set of times, ascending.
RECURSIVE Smallest(_, _)
Smallest(S, n) ==
    IF n = 0 \/ S = {} THEN <<>>
    ELSE LET m == CHOOSE x \in S : \A y \in S : x <= y
         IN  <<m>> \o Smallest(S \ {m}, n - 1)

C12_DateThenTimeThenConflict ==
    \A d \in DoctorIds, date \in ValidatorDates, time \in ValidatorTimes :
        LET v == validate_complete_appointment(appointments, d, date, time)
            dateOk == validate_date_against_availability(date, Doctors[d]) = None
            timeOk == validate_time_against_availability(time, Doctors[d]) = None
        IN  /\ ~dateOk => v.error_type = "date"
            /\ v.error_type = "time" <=> (dateOk /\ ~timeOk)
            /\ v.error_type = "conflict" => (dateOk /\ timeOk)
            /\ v.valid <=> v.error_type = None

\* C12 witness: a request whose date and time both fail, for a table that
\* holds bookings, was answered with "date".
C12_Witness ==
    /\ bk[1].pc = "done"
    /\ bk[1].error_type = "date"
    /\ validate_time_against_availability(bk[1].time, Doctors[bk[1].doctor_id]) # None
    /\ appointments # {}

\* C13: the conflict check reports a conflict exactly when the requested
\* interval starts with, or overlaps, a non-cancelled booking of the
\* doctor on the date; cancelled bookings cause none.
C13_ConflictIffActiveOverlap ==
    \A d \in DoctorIds, date \in ValidatorDates, time \in ValidatorTimes :
        (check_appointment_conflict(appointments, d, date, time) # None)
        <=> \E a \in appointments :
               /\ Active(a)
               /\ a.doctor_id = d
               /\ a.appointment_date = date
               /\ \/ a.appointment_time = time
                  \/ /\ a.appointment_time < time + Doctors[d].slot_duration_minutes
                     /\ time < EndTime(a)

\* C13 witness: a request for a slot whose only booking is cancelled
\* passed the validation.
C13_Witness ==
    /\ bk[1].pc = "inserting"
    /\ \E a \in appointments :
          /\ ~Active(a)
          /\ a.appointment_date = bk[1].date
          /\ a.appointment_time = bk[1].time

\* ---- tool invocation
\* A requested call that cannot succeed.
CannotSucceed(call) ==
    \/ call.name \notin mcp_server_tools
    \/ RequiredParams(call.name) \ DOMAIN call.args # {}
    \/ call.fault

Ended(w) == mem[w].pc = "idle" /\ mem[w].op # None

\* C15: every operation of the memory store that is invoked without a
\* user identifier (absent or empty) is rejected with an error; none returns
\* a default or empty result.
C15_BlankUserIdRejected ==
    \A w \in Workers :
        (Ended(w) /\ ~Truthy(mem[w].patient_email)) => mem[w].outcome = "ValueError"

\* C16: get_or_create_context for (s, A) and then for (s, B) both succeed
\* and leave two distinct contexts: no call with a user identifier ends in
\* a constraint error, and the table holds at most one row per pair.
C16_ContextPerSessionAndUser ==
    /\ \A w \in Workers :
          (Ended(w) /\ Truthy(mem[w].patient_email)) => mem[w].outcome # "IntegrityError"
    /\ \A r1, r2 \in conversation_contexts : KeyOf(r1) = KeyOf(r2) => r1 = r2


\* C17: mutations of one context are atomic read-modify-write operations:
\* the row holds every committed mutation, message_count is the number of
\* update_message_count calls committed on it and attempted_dates has one
\* entry per committed save_attempted_date; no update is lost.
C17_NoLostUpdate ==
    \A k \in StoreKeys :
        \A r \in QueryContext(conversation_contexts, k[1], k[2]) :
            /\ r.message_count = committed[k].messages
            /\ Len(r.context_data.attempted_dates) = committed[k].dates

C17_Witness ==
    \E r \in conversation_contexts :
        /\ r.message_count = 2
        /\ \A w \in Workers :
              /\ Ended(w)
              /\ mem[w].op = "update_message_count"
              /\ mem[w].outcome = "returned"
              /\ Key(mem[w].session_id, mem[w].patient_email) = KeyOf(r)

\* A worker whose call has to read a row for update.
WantsRow(w) ==
    /\ mem[w].pc = "called"
    /\ mem[w].op # "get_context_for_prompt"
    /\ Truthy(mem[w].patient_email)

HeldByOther(w) ==
    \E x \in Workers \ {w} :
        /\ mem[x].pc = "holding"
        /\ Key(mem[x].session_id, mem[x].patient_email)
              = Key(mem[w].session_id, mem[w].patient_email)

\* C18: an operation on one key can always go on while an operation on a
\* different key is in progress or stalled: a call is never made to wait
\* unless another request holds the very same (session_id, patient_email).
C18_OtherKeysNeverWait ==
    \A w \in Workers :
        /\ (WantsRow(w) /\ ~HeldByOther(w)) => ENABLED MemBegin(w)
        /\ (mem[w].pc = "called" /\ mem[w].op = "get_context_for_prompt")
              => ENABLED MemRead(w)
        /\ mem[w].pc = "holding" => ENABLED MemCommit(w)

C18_Witness ==
    \E w1, w2 \in Workers :
        /\ mem[w1].pc = "holding"
        /\ mem[w2].pc = "holding"
        /\ mem[w1].patient_email # mem[w2].patient_email


C22_NoCallsAfterCancel ==
    obs.cancelledAt # -1 => iteration <= obs.cancelledAt + 1


\* ---- failure of a model call
\* C23: when a call of the model fails (timeout, connection error) the
\* turn ends without a further model call, and its response is an error of
\* a kind of its own: not a success, and not the max-iterations failure.
C23_ModelFailureIsDistinctError ==
    obs.llmFailed =>
        /\ pc = "done"
        /\ ~result.success
        /\ result.error \notin {None, "Max iterations reached without results"}


\* ---- what a turn leaves in the memory
\* The row of the current request's (session_id, user_email) in a table.
RequestRows(ctxs) == QueryContext(ctxs, request.session_id, request.user_email)

CountAtStart ==
    IF RequestRows(obs.contextsAtStart) = {} THEN 0
    ELSE (CHOOSE r \in RequestRows(obs.contextsAtStart) : TRUE).message_count

HasLine(summary, kind) == \E i \in DOMAIN summary : summary[i].line = kind

\* C25: a booking attempt made in a turn of (session_id, user_email) and
\* rejected by validation is in the memory summary rendered at the start
\* of every later turn of the same pair: the summary has the selected
\* doctor, the attempted date and the rejection reason.
C25_RejectionRemembered ==
    (pc = "await_model" /\ obs.llmCalls = 0) =>
        \A r \in conversation_contexts :
            \A k \in DOMAIN r.context_data.attempted_dates :
                ( /\ r.session_id = request.session_id
                  /\ r.context_data.attempted_dates[k].by = request.user_email ) =>
                    /\ HasLine(memory_context, "interest")
                    /\ HasLine(memory_context, "rejection")
                    /\ \E i \in DOMAIN memory_context :
                          /\ memory_context[i].line = "attempted"
                          /\ \E j \in DOMAIN memory_context[i].value :
                                memory_context[i].value[j]
                                    = r.context_data.attempted_dates[k]


\* ---- one response per message
\* messages' is messages with one message of the role appended.
AppendsOne(role) ==
    /\ Len(messages') = Len(messages) + 1
    /\ SubSeq(messages', 1, Len(messages)) = messages
    /\ messages'[Len(messages')].role = role

Returned == pc \in {"done", "rejected", "crashed"}

\* C26: each sent user message yields exactly one assistant response.
\* A sendMessage appends exactly one user message and issues one request;
\* a request that settles leaves the pending requests for good and
\* appends exactly one assistant message (the reply or one error
\* message); nothing else changes the message list of the mounted hook;
\* and a turn of the agent loop has no response until it returns and
\* exactly one, which does not change, once it has returned.
C26_OneResponsePerMessage ==
    [][ /\ (nextReq' = nextReq + 1) =>
              /\ AppendsOne("user")
              /\ Cardinality(inflight') = Cardinality(inflight) + 1
        /\ \A r \in inflight :
              (r \notin inflight' /\ mounted') =>
                  /\ AppendsOne("assistant")
                  /\ inflight' = inflight \ {r}
        /\ (mounted /\ mounted' /\ nextReq' = nextReq /\ inflight' = inflight) =>
              messages' = messages
        /\ Returned <=> result # NoResult
        /\ Returned' <=> result' # NoResult
        /\ (turns' = turns /\ Returned) => result' = result
      ]_vars

C26_Witness ==
    /\ mounted /\ nextReq = 2 /\ inflight = {}
    /\ Len(messages) = 4
    /\ messages[1].role = "user" /\ messages[2].role = "assistant"
    /\ messages[3].role = "user" /\ messages[4].role = "assistant"
    /\ messages[4].isError /\ ~messages[2].isError
    /\ pc = "done" /\ iteration = 2 /\ result.success


\* ---- clearing the chat
\* A step of the mounted hook that is neither a send, a settled request,
\* a change of user nor a refresh: clearMessages.
ClearStep ==
    /\ mounted /\ mounted'
    /\ UNCHANGED <<userEmail, nextReq, inflight>>

\* Nothing of the user's conversation is left, in the hook or in storage.
Cleared ==
    /\ messages = <<>>
    /\ sessionId = Null
    /\ localStorage[MessagesKey(userEmail)] = Null
    /\ localStorage[SessionKey(userEmail)] = Null

\* C27: after clearMessages the message list is empty, sessionId is null
\* and localStorage holds no entry under smart_doctor_messages_<email>
\* nor under smart_doctor_session_id_<email>.
C27_ClearLeavesNothing == [][ClearStep => Cleared']_vars


\* ---- page refresh
\* C28: for a fixed userEmail a page refresh restores exactly the message
\* list and the sessionId current before it: when the hook unmounts, the
\* user's two keys hold its message list and its sessionId (no session
\* key for a null sessionId), and when it mounts it holds what the user's
\* two keys held (an empty list and a null sessionId for absent keys).
C28_RefreshRestoresConversation ==
    [][ /\ (mounted /\ ~mounted') =>
              /\ localStorage'[MessagesKey(userEmail)] = JSONstringify(messages)
              /\ localStorage'[SessionKey(userEmail)] = sessionId
        /\ (~mounted /\ mounted') =>
              /\ sessionId' = localStorage[SessionKey(userEmail')]
              /\ IF localStorage[MessagesKey(userEmail')] = Null
                 THEN messages' = <<>>
                 ELSE JSONstringify(messages') = localStorage[MessagesKey(userEmail')]
      ]_vars

\* A refresh while a request was pending: the restored list ends with the
\* user's message and the session id of the first answer is back.
C28_Witness ==
    /\ mounted /\ inflight = {} /\ nextReq = 2
    /\ sessionId # Null
    /\ Len(messages) = 3
    /\ messages[3].role = "user"
    /\ \A i \in 1..3 : messages[i].owner = userEmail


\* ---- two tabs
RECURSIVE UserMessages(_)
\* Number of user messages of a message list.
UserMessages(msgs) ==
    IF msgs = <<>> THEN 0
    ELSE (IF Head(msgs).role = "user" THEN 1 ELSE 0) + UserMessages(Tail(msgs))

\* C29: two hook instances with the same userEmail in one browser share
\* one conversation: the list stored under smart_doctor_messages_<email>
\* holds every message sent from either tab, whatever the interleaving.
C29_TabsShareConversation ==
    (mounted /\ otherTab.mounted) =>
        UserMessages(LoadMessages(localStorage, userEmail)) >= nextReq + otherTab.sent


\* ---- the validator is read-only and repeatable
\* The validator's answer as the client holds it.
Verdict(c) ==
    [error_type |-> bk[c].error_type, suggested_slots |-> bk[c].suggested_slots,
     error |-> IF bk[c].error = "IntegrityError" THEN None ELSE bk[c].error]

\* No row has been written since the table was filled.
TableUntouched == nextApptId = Len(MorningTimes) + Len(AfternoonTimes) + 1

C32_DuplicateRegistrationRejected ==
    registerCall.held # Null =>
        /\ registerCall.raised = "DuplicateTool"
        /\ tools[registerCall.name] = registerCall.held


\* ---- singular and plural
\* C33: every rendered count has the singular noun exactly when the count
\* is 1, and the plural noun when it is 0 or at least 2: the sidebar's
\* doctor count, the synthesized listing's doctor count, and the tool and
\* iteration counts of the report.
C33_SingularIffOne ==
    /\ rendered.sidebar # Null =>
          (rendered.sidebar.noun = "doctor" <=> rendered.sidebar.count = 1)
          /\ rendered.sidebar.noun \in {"doctor", "doctors"}
    /\ rendered.synthesis # Null =>
          (rendered.synthesis.noun = "doctor" <=> rendered.synthesis.count = 1)
          /\ rendered.synthesis.noun \in {"doctor", "doctors"}
    /\ rendered.report # Null =>
          \A part \in {rendered.report.tools, rendered.report.iterations} :
              /\ part.noun.suffix = "" <=> part.count = 1
              /\ part.noun.suffix \in {"", "s"}

\* C33 witness: one doctor in the synthesized listing, no doctor in the
\* sidebar, and a report of two tool calls in one iteration.
C33_Witness ==
    /\ rendered.sidebar # Null /\ rendered.synthesis # Null /\ rendered.report # Null
    /\ rendered.synthesis = [count |-> 1, noun |-> "doctor"]
    /\ rendered.sidebar = [count |-> 0, noun |-> "doctors"]
    /\ rendered.report.tools.count = 2 /\ rendered.report.iterations.count = 1


\* ---- no empty success
\* C34: no envelope with success true has an empty response text, also
\* when the model returns empty content with no tool calls and the turn
\* has accumulated no tool result.
C34_NoEmptySuccess ==
    (pc = "done" /\ result.success) => result.response # <<>>


\* ---- rebooking a cancelled slot
\* An active booking of the doctor starts at the date and time.
ActiveAt(doctor_id, appt_date, appt_time) ==
    \E a \in appointments :
        /\ Active(a)
        /\ a.doctor_id = doctor_id
        /\ a.appointment_date = appt_date
        /\ a.appointment_time = appt_time

\* C35: a request that passed the complete validation and finds no active
\* booking at its doctor, date and start time when it is inserted is
\* inserted successfully; a cancelled booking of the slot does not stand
\* in its way.
C35_CancelledSlotCanBeRebooked ==
    [][ \A c \in Clients :
          ( /\ bk[c].pc = "inserting" /\ bk'[c].pc = "done"
            /\ ~ActiveAt(bk[c].doctor_id, bk[c].date, bk[c].time) )
          => bk'[c].success
      ]_vars


\* ---- concurrent first references
\* C36: concurrent first references to the same (session_id,
\* patient_email) create exactly one context: both callers complete
\* successfully, one row of the pair is stored, and a second row of the
\* pair never exists.
C36_FirstReferencesCreateOne ==
    /\ \A r1, r2 \in conversation_contexts :
          (KeyOf(r1) = KeyOf(r2) /\ r1.patient_email = "alice@example.com") => r1 = r2
    /\ \A w1, w2 \in Workers :
          ( /\ w1 # w2 /\ Ended(w1) /\ Ended(w2)
            /\ Key(mem[w1].session_id, mem[w1].patient_email)
                 = Key(mem[w2].session_id, mem[w2].patient_email) ) =>
              /\ mem[w1].outcome = "returned" /\ mem[w2].outcome = "returned"
              /\ Cardinality(QueryContext(conversation_contexts, mem[w1].session_id,
                                          mem[w1].patient_email)) = 1


C38_LoadingEventuallyFalse ==
    /\ isLoading ~> ~isLoading
    /\ [][ (sendMessage(" ") \/ sendMessage("")) => isLoading' = isLoading ]_vars

\* C38 witness: two requests were sent, the second failed or timed out,
\* and the flag is down.
C38_Witness ==
    /\ mounted /\ ~isLoading
    /\ nextReq = 2 /\ inflight = {}
    /\ Len(messages) = 4
    /\ messages[4].isError

\* C39: a sessionId that is set is never replaced by another one while the
\* hook is mounted (a response leaves it alone, only clearMessages unsets
\* it), and every request sent carries the hook's sessionId, so that the
\* requests after a response carry the id that response supplied.
C39_SessionIdKept ==
    [][ /\ (mounted /\ mounted' /\ sessionId # Null /\ sessionId' # Null)
            => sessionId' = sessionId
        /\ \A r \in inflight' \ inflight : r.session_id = sessionId ]_vars

\* C40: the loading flag of useDoctorDashboard is true whenever a call of
\* fetchStats, fetchAppointments or generateReport is pending.
C40_LoadingWhileFetching == fetching # {} => doctorDashboard.loading

====
